---- MODULE Spec2Model ----
(***************************************************************************)
(* Model of the JNI bridge in app/src/main/cpp/espeak_jni.cpp: the mock    *)
(* espeak binding with its two process-wide globals (g_initialized,        *)
(* g_dataPath) and its three native entry points nativeInit,               *)
(* nativePhonemize and nativeCleanup.                                      *)
(*                                                                         *)
(* Spec      : the entry points are called one after the other; every      *)
(*             action is one whole call.                                   *)
(* SpecConc  : the entry points are called from several threads and        *)
(*             interleave at the granularity of the source lines that      *)
(*             read or write the globals.                                  *)
(***************************************************************************)
EXTENDS Integers, Sequences, FiniteSets, TLC

(* ------------------------------ bounds --------------------------------- *)

\* longest data path (in UTF-16 code units) handed to nativeInit
MaxLen == 2

\* longest text / voice (in UTF-16 code units) handed to nativePhonemize
MaxTextLen == 1

(* --------------------------- strings and JNI --------------------------- *)

\* UTF-16 code units the host strings are made of: U+0000 and 'a'
Chars == {0, 97}

\* a null jstring reference
NullRef == <<-1>>

\* a null char pointer
nullptr == <<-1>>

\* "no argument of this kind in this call"
NoArg == <<-2>>

SeqsUpTo(n) == UNION {[1..k -> Chars] : k \in 0..n}

\* the jstring arguments a caller can pass: a string or a null reference
JPaths == SeqsUpTo(MaxLen) \cup {NullRef}

JTexts == SeqsUpTo(MaxTextLen) \cup {NullRef}

\* modified UTF-8 of one code unit: U+0000 takes two bytes, so the encoded
\* string holds no zero byte
ModifiedUTF8(c) ==
    IF c >= 1 /\ c <= 127 THEN <<c>>
    ELSE IF c <= 2047 THEN <<192 + (c \div 64), 128 + (c % 64)>>
    ELSE <<224 + (c \div 4096), 128 + ((c \div 64) % 64), 128 + (c % 64)>>

RECURSIVE EncodeChars(_)
EncodeChars(s) ==
    IF s = <<>> THEN <<>>
    ELSE ModifiedUTF8(Head(s)) \o EncodeChars(Tail(s))

\* env->GetStringUTFChars(js, nullptr): the zero-terminated modified UTF-8
\* buffer, or a null pointer when the reference is null or the buffer
\* cannot be obtained
GetStringUTFChars(js, ok) ==
    IF js = NullRef \/ ~ok THEN nullptr
    ELSE EncodeChars(js) \o <<0>>

\* the number of buffers a GetStringUTFChars result holds (0 for a null pointer)
Held(p) == IF p = nullptr THEN 0 ELSE 1

ReleaseStringUTFChars_leak(p) == 0

\* env->ReleaseStringUTFChars(js, p): the number of buffers it gives back
\* (the one p points to; none for a null pointer)
ReleaseStringUTFChars(p) == Held(p)

RECURSIVE UpToNul(_)
UpToNul(buf) ==
    IF buf = <<>> \/ Head(buf) = 0 THEN <<>>
    ELSE <<Head(buf)>> \o UpToNul(Tail(buf))

\* std::string(const char*) of a non-null pointer: the bytes before the
\* first zero byte
StdString(p) == UpToNul(p)

\* what dereferencing a null char pointer (std::string(nullptr), "%s" of a
\* null pointer) can do: kill the process, or read it as an empty string
UBOutcomes == {"crash", "empty"}

(* ------------------------------- state --------------------------------- *)

VARIABLES
    g_initialized,   \* static bool g_initialized
    g_dataPath,      \* static std::string g_dataPath
    crashed,         \* the process was killed inside a native call
    outstanding,     \* buffers obtained by GetStringUTFChars and not released
    last,            \* the call that ended last, and how
    lastLifecycle,   \* the last of nativeInit / nativeCleanup that returned
    lastInitArg,     \* the dataPath of the last nativeInit that returned
    frame,           \* per thread: the call in progress (SpecConc)
    supplied         \* the strings handed to nativeInit so far (SpecPaths)

vars == <<g_initialized, g_dataPath, crashed, outstanding, last,
          lastLifecycle, lastInitArg, frame, supplied>>

globals == <<g_initialized, g_dataPath>>

Threads == {"t1", "t2"}

\* a thread's call: pc the source line it is at, a and b the char pointers it
\* holds (path; inputText and voiceId), res its std::string temporary, ret
\* what its last call returned
IdleFrame == [pc |-> "idle", a |-> NoArg, b |-> NoArg, res |-> NoArg,
              ret |-> "none"]

NoCall == [op |-> "none", dataPath |-> NoArg, text |-> NoArg, voice |-> NoArg,
           outcome |-> "none", ret |-> "none", log |-> <<>>, gets |-> 0]

InitialFlag_true == TRUE

\* line 10: static bool g_initialized = false
InitialFlag == FALSE

\* line 11: static std::string g_dataPath (default constructed: empty)
InitialPath == <<>>

Init ==
    /\ g_initialized = InitialFlag
    /\ g_dataPath = InitialPath
    /\ crashed = FALSE
    /\ outstanding = 0
    /\ last = NoCall
    /\ lastLifecycle = "none"
    /\ lastInitArg = NoArg
    /\ frame = [t \in Threads |-> IdleFrame]
    /\ supplied = {}

(* ------------------------- the code's decisions ------------------------ *)

InitFlag_notSet == FALSE

\* line 27: g_initialized = true
InitFlag == TRUE

\* line 29: return JNI_TRUE
InitReturn == "JNI_TRUE"

\* line 39: if (!g_initialized)
NotInitialized(flag) == ~flag

PhonemizeReturn_result(result) == "jstring"

\* line 63: return nullptr (the computed result is dropped)
PhonemizeReturn(result) == "nullptr"

CleanupFlag_toggle(flag) == ~flag

CleanupFlag_keep(flag) == flag

\* line 73: g_initialized = false
CleanupFlag(flag) == FALSE

LogInit == "I:Espeak mock init with data path"
LogNotInit == "E:Espeak not initialized"
LogPhonemize == "I:Mock phonemize"
LogCleanup == "I:Espeak cleanup"

(* ----------------------- whole calls (Spec) ---------------------------- *)

\* nativeInit(dataPath), lines 13-30
nativeInit(dataPath, ok, ub) ==
    /\ ~crashed
    /\ LET path == GetStringUTFChars(dataPath, ok)
           dies == path = nullptr /\ ub = "crash"
           str  == IF path = nullptr THEN <<>> ELSE StdString(path)
       IN  IF dies
           THEN /\ crashed' = TRUE
                /\ outstanding' = outstanding + Held(path)
                /\ last' = [NoCall EXCEPT !.op = "nativeInit",
                                           !.dataPath = dataPath,
                                           !.outcome = "crash", !.gets = 1]
                /\ UNCHANGED <<g_initialized, g_dataPath, lastLifecycle,
                               lastInitArg>>
           ELSE /\ g_dataPath' = str
                /\ g_initialized' = InitFlag
                /\ outstanding' = outstanding + Held(path)
                                  - ReleaseStringUTFChars(path)
                /\ last' = [NoCall EXCEPT !.op = "nativeInit",
                                           !.dataPath = dataPath,
                                           !.outcome = "returned",
                                           !.ret = InitReturn,
                                           !.log = <<LogInit>>, !.gets = 1]
                /\ lastLifecycle' = "nativeInit"
                /\ lastInitArg' = dataPath
                /\ UNCHANGED crashed
    /\ UNCHANGED <<frame, supplied>>

\* a conversion that leaves the engine marked "not ready" and keeps its
\* result in the global string
nativePhonemize_storesResult(text, voice, okT, okV, ub) ==
    /\ ~crashed
    /\ g_initialized' = FALSE
    /\ g_dataPath' = IF text = NullRef THEN <<>> ELSE EncodeChars(text)
    /\ last' = [NoCall EXCEPT !.op = "nativePhonemize", !.text = text,
                               !.voice = voice, !.outcome = "returned",
                               !.ret = "nullptr", !.log = <<LogPhonemize>>,
                               !.gets = 2]
    /\ UNCHANGED <<crashed, outstanding, lastLifecycle, lastInitArg, frame,
                   supplied>>

\* nativePhonemize(text, voice), lines 32-64
nativePhonemize(text, voice, okT, okV, ub) ==
    /\ ~crashed
    /\ IF NotInitialized(g_initialized)
       THEN /\ last' = [NoCall EXCEPT !.op = "nativePhonemize",
                                       !.text = text, !.voice = voice,
                                       !.outcome = "returned",
                                       !.ret = "nullptr",
                                       !.log = <<LogNotInit>>, !.gets = 0]
            /\ UNCHANGED <<crashed, outstanding>>
       ELSE LET inputText == GetStringUTFChars(text, okT)
                voiceId   == GetStringUTFChars(voice, okV)
                dies == (inputText = nullptr \/ voiceId = nullptr) /\ ub = "crash"
                result == IF inputText = nullptr THEN <<>> ELSE StdString(inputText)
            IN  IF dies
                THEN /\ crashed' = TRUE
                     /\ outstanding' = outstanding + Held(inputText) + Held(voiceId)
                     /\ last' = [NoCall EXCEPT !.op = "nativePhonemize",
                                                !.text = text, !.voice = voice,
                                                !.outcome = "crash", !.gets = 2]
                ELSE /\ outstanding' = outstanding + Held(inputText) + Held(voiceId)
                                         - ReleaseStringUTFChars(inputText)
                                         - ReleaseStringUTFChars(voiceId)
                     /\ last' = [NoCall EXCEPT !.op = "nativePhonemize",
                                                !.text = text, !.voice = voice,
                                                !.outcome = "returned",
                                                !.ret = PhonemizeReturn(result),
                                                !.log = <<LogPhonemize>>,
                                                !.gets = 2]
                     /\ UNCHANGED crashed
    /\ UNCHANGED <<g_initialized, g_dataPath, lastLifecycle, lastInitArg, frame,
                   supplied>>

\* a cleanup that also clears the global string
nativeCleanup_clearsPath ==
    /\ ~crashed
    /\ g_initialized' = FALSE
    /\ g_dataPath' = <<>>
    /\ last' = [NoCall EXCEPT !.op = "nativeCleanup", !.outcome = "returned",
                               !.ret = "void", !.log = <<LogCleanup>>]
    /\ lastLifecycle' = "nativeCleanup"
    /\ UNCHANGED <<crashed, outstanding, lastInitArg, frame, supplied>>

\* nativeCleanup(), lines 66-74
nativeCleanup ==
    /\ ~crashed
    /\ g_initialized' = CleanupFlag(g_initialized)
    /\ last' = [NoCall EXCEPT !.op = "nativeCleanup", !.outcome = "returned",
                               !.ret = "void", !.log = <<LogCleanup>>]
    /\ lastLifecycle' = "nativeCleanup"
    /\ UNCHANGED <<g_dataPath, crashed, outstanding, lastInitArg, frame,
                   supplied>>

CallInit == \E p \in JPaths, ok \in BOOLEAN, ub \in UBOutcomes : nativeInit(p, ok, ub)

CallPhonemize ==
    \E t \in JTexts, v \in JTexts, okT \in BOOLEAN, okV \in BOOLEAN,
       ub \in UBOutcomes : nativePhonemize(t, v, okT, okV, ub)

CallCleanup == nativeCleanup

Next == CallInit \/ CallPhonemize \/ CallCleanup

Spec == Init /\ [][Next]_vars

(* ------------------ interleaved calls (SpecConc) ----------------------- *)
(* One step per access to the globals; the lines between two accesses      *)
(* touch only the thread's own locals and go with the access before them.  *)
(* last, lastLifecycle and lastInitArg describe a single caller's calls    *)
(* and are left alone here.                                                *)

seqHistory == <<last, lastLifecycle, lastInitArg>>

\* the history variables a step other than the start of nativeInit leaves alone
history == <<seqHistory, supplied>>

\* what two unsynchronised assignments of x and y to one std::string can
\* leave in it: the length of either and, at each place, the byte of either
Torn(x, y) ==
    LET bytes == {x[i] : i \in 1..Len(x)} \cup {y[i] : i \in 1..Len(y)}
    IN  {s \in UNION {[1..n -> bytes] : n \in {Len(x), Len(y)}} :
            \A i \in 1..Len(s) :
                \/ (i <= Len(x) /\ s[i] = x[i])
                \/ (i <= Len(y) /\ s[i] = y[i])}

\* another thread is inside its assignment to g_dataPath (line 20)
OtherWriting(t) == \E u \in Threads \ {t} : frame[u].pc = "i20w"

\* lines 19-20: obtain the path's characters and build the std::string
\* temporary from them
Init_19(t, dataPath, ok, ub) ==
    /\ ~crashed
    /\ frame[t].pc = "idle"
    /\ LET path == GetStringUTFChars(dataPath, ok)
       IN  /\ outstanding' = outstanding + Held(path)
           /\ IF path = nullptr /\ ub = "crash"
              THEN /\ crashed' = TRUE
                   /\ frame' = [frame EXCEPT ![t] =
                                  [IdleFrame EXCEPT !.pc = "i20", !.a = path]]
              ELSE /\ frame' = [frame EXCEPT ![t] =
                                  [IdleFrame EXCEPT
                                      !.pc = "i20", !.a = path,
                                      !.res = IF path = nullptr THEN <<>>
                                              ELSE StdString(path)]]
                   /\ UNCHANGED crashed
    /\ UNCHANGED <<g_initialized, g_dataPath, seqHistory>>

\* line 20: the assignment to g_dataPath starts
Init_20_begin(t) ==
    /\ ~crashed
    /\ frame[t].pc = "i20"
    /\ frame' = [frame EXCEPT ![t].pc = "i20w"]
    /\ UNCHANGED <<g_initialized, g_dataPath, crashed, outstanding, history>>

\* lines 20-21: the assignment to g_dataPath ends and the path's characters
\* are released; an assignment by another thread that overlaps it is a data
\* race
Init_20_end(t, race) ==
    /\ ~crashed
    /\ frame[t].pc = "i20w"
    /\ IF OtherWriting(t) /\ race = "crash"
       THEN /\ crashed' = TRUE
            /\ UNCHANGED <<g_dataPath, outstanding, frame>>
       ELSE /\ IF OtherWriting(t)
               THEN \E u \in Threads \ {t} :
                        /\ frame[u].pc = "i20w"
                        /\ g_dataPath' \in Torn(frame[t].res, frame[u].res)
               ELSE g_dataPath' = frame[t].res
            /\ outstanding' = outstanding - ReleaseStringUTFChars(frame[t].a)
            /\ frame' = [frame EXCEPT ![t] = [IdleFrame EXCEPT !.pc = "i23"]]
            /\ UNCHANGED crashed
    /\ UNCHANGED <<g_initialized, history>>

\* line 23: LOGI reads g_dataPath.c_str(); reading it while another thread
\* assigns it is a data race
Init_23(t, race) ==
    /\ ~crashed
    /\ frame[t].pc = "i23"
    /\ IF OtherWriting(t) /\ race = "crash"
       THEN crashed' = TRUE /\ UNCHANGED frame
       ELSE frame' = [frame EXCEPT ![t].pc = "i27"] /\ UNCHANGED crashed
    /\ UNCHANGED <<g_initialized, g_dataPath, outstanding, history>>

\* lines 27-29: set the flag and return JNI_TRUE
Init_27(t) ==
    /\ ~crashed
    /\ frame[t].pc = "i27"
    /\ g_initialized' = InitFlag
    /\ frame' = [frame EXCEPT ![t] = [IdleFrame EXCEPT !.ret = InitReturn]]
    /\ UNCHANGED <<g_dataPath, crashed, outstanding, history>>

\* lines 39-42: the flag is read and found false
Phonemize_39_notInitialized(t) ==
    /\ ~crashed
    /\ frame[t].pc = "idle"
    /\ NotInitialized(g_initialized)
    /\ frame' = [frame EXCEPT ![t] = [IdleFrame EXCEPT !.ret = "nullptr"]]
    /\ UNCHANGED <<g_initialized, g_dataPath, crashed, outstanding, history>>

\* line 39: the flag is read and found true
Phonemize_39_initialized(t) ==
    /\ ~crashed
    /\ frame[t].pc = "idle"
    /\ ~NotInitialized(g_initialized)
    /\ frame' = [frame EXCEPT ![t] = [IdleFrame EXCEPT !.pc = "c44"]]
    /\ UNCHANGED <<g_initialized, g_dataPath, crashed, outstanding, history>>

\* lines 44-47: obtain the characters of text and voice and log them
Phonemize_44(t, text, voice, okT, okV, ub) ==
    /\ ~crashed
    /\ frame[t].pc = "c44"
    /\ LET inputText == GetStringUTFChars(text, okT)
           voiceId   == GetStringUTFChars(voice, okV)
       IN  /\ outstanding' = outstanding + Held(inputText) + Held(voiceId)
           /\ frame' = [frame EXCEPT ![t] =
                          [IdleFrame EXCEPT !.pc = "c57", !.a = inputText,
                                            !.b = voiceId]]
           /\ crashed' = ((inputText = nullptr \/ voiceId = nullptr)
                            /\ ub = "crash")
    /\ UNCHANGED <<g_initialized, g_dataPath, history>>

\* lines 57-63: copy the text, release both buffers, return null
Phonemize_57(t, ub) ==
    /\ ~crashed
    /\ frame[t].pc = "c57"
    /\ IF frame[t].a = nullptr /\ ub = "crash"
       THEN crashed' = TRUE /\ UNCHANGED <<outstanding, frame>>
       ELSE LET result == IF frame[t].a = nullptr THEN <<>>
                          ELSE StdString(frame[t].a)
            IN  /\ outstanding' = outstanding - ReleaseStringUTFChars(frame[t].a)
                                           - ReleaseStringUTFChars(frame[t].b)
                /\ frame' = [frame EXCEPT ![t] =
                               [IdleFrame EXCEPT !.ret = PhonemizeReturn(result)]]
                /\ UNCHANGED crashed
    /\ UNCHANGED <<g_initialized, g_dataPath, history>>

\* line 71: LOGI("Espeak cleanup")
Cleanup_71(t) ==
    /\ ~crashed
    /\ frame[t].pc = "idle"
    /\ frame' = [frame EXCEPT ![t] = [IdleFrame EXCEPT !.pc = "k73"]]
    /\ UNCHANGED <<g_initialized, g_dataPath, crashed, outstanding, history>>

\* lines 73-74: clear the flag and return
Cleanup_73(t) ==
    /\ ~crashed
    /\ frame[t].pc = "k73"
    /\ g_initialized' = CleanupFlag(g_initialized)
    /\ frame' = [frame EXCEPT ![t] = [IdleFrame EXCEPT !.ret = "void"]]
    /\ UNCHANGED <<g_dataPath, crashed, outstanding, history>>

StepInit19 ==
    \E t \in Threads, p \in JPaths, ok \in BOOLEAN, ub \in UBOutcomes :
        Init_19(t, p, ok, ub) /\ UNCHANGED supplied

StepInit20Begin == \E t \in Threads : Init_20_begin(t)

StepInit20End == \E t \in Threads, race \in UBOutcomes : Init_20_end(t, race)

StepInit23 == \E t \in Threads, race \in UBOutcomes : Init_23(t, race)

StepInit27 == \E t \in Threads : Init_27(t)

StepPhonemize39NotInitialized == \E t \in Threads : Phonemize_39_notInitialized(t)

StepPhonemize39Initialized == \E t \in Threads : Phonemize_39_initialized(t)

StepPhonemize44 ==
    \E t \in Threads, x \in JTexts, v \in JTexts, okT \in BOOLEAN,
       okV \in BOOLEAN, ub \in UBOutcomes : Phonemize_44(t, x, v, okT, okV, ub)

StepPhonemize57 == \E t \in Threads, ub \in UBOutcomes : Phonemize_57(t, ub)

StepCleanup71 == \E t \in Threads : Cleanup_71(t)

StepCleanup73 == \E t \in Threads : Cleanup_73(t)

NextConc ==
    \/ StepInit19
    \/ StepInit20Begin
    \/ StepInit20End
    \/ StepInit23
    \/ StepInit27
    \/ StepPhonemize39NotInitialized
    \/ StepPhonemize39Initialized
    \/ StepPhonemize44
    \/ StepPhonemize57
    \/ StepCleanup71
    \/ StepCleanup73

SpecConc == Init /\ [][NextConc]_vars

(* ------- interleaved nativeInit and nativeCleanup (SpecPaths) ---------- *)
(* The steps of SpecConc for nativeInit and nativeCleanup, with the        *)
(* strings the callers have handed to nativeInit recorded in supplied.     *)

\* a call of nativeInit starts: its dataPath, unless a null reference, is
\* from now on a string that was supplied
StepInit19Supplied ==
    \E t \in Threads, p \in JPaths, ok \in BOOLEAN, ub \in UBOutcomes :
        /\ Init_19(t, p, ok, ub)
        /\ supplied' = supplied \cup ({p} \ {NullRef})

NextPaths ==
    \/ StepInit19Supplied
    \/ StepInit20Begin
    \/ StepInit20End
    \/ StepInit23
    \/ StepInit27
    \/ StepCleanup71
    \/ StepCleanup73

SpecPaths == Init /\ [][NextPaths]_vars

\* the values g_dataPath holds when it holds a supplied string
SuppliedValues == {EncodeChars(p) : p \in supplied}

\* the threads inside the conversion body of nativePhonemize (after the check
\* of line 39, before the return of line 63)
InConversion == {t \in Threads : frame[t].pc \in {"c44", "c57"}}

TypeOK ==
    /\ g_initialized \in BOOLEAN
    /\ crashed \in BOOLEAN
    /\ outstanding \in 0..4
    /\ lastLifecycle \in {"none", "nativeInit", "nativeCleanup"}

(* ------------------------------ properties ----------------------------- *)

\* the not-initialized path of nativePhonemize (lines 39-42): the error
\* diagnostic, a null result, and no string buffer requested
TookNotInitializedPath ==
    /\ last.outcome = "returned"
    /\ last.ret = "nullptr"
    /\ last.log = <<LogNotInit>>
    /\ last.gets = 0

C2_ConvertBeforeInit ==
    (last.op = "nativePhonemize" /\ lastInitArg = NoArg)
        => TookNotInitializedPath

C2_Witness ==
    /\ last.op = "nativePhonemize"
    /\ lastInitArg = NoArg
    /\ lastLifecycle = "none"
    /\ last.text = <<97>>
    /\ last.log = <<LogNotInit>>

\* C3: the readiness flag is true exactly when the most recent of
\* nativeInit / nativeCleanup to return was nativeInit (false when neither
\* has returned).
C3_FlagFollowsLifecycle ==
    g_initialized <=> (lastLifecycle = "nativeInit")

C3_Witness ==
    /\ last.op = "nativeInit"
    /\ last.outcome = "returned"
    /\ last.dataPath = <<97, 0>>
    /\ g_initialized

\* C4: a nativePhonemize call made after a nativeCleanup and before the next
\* nativeInit takes the not-initialized path and returns null.
C4_ConvertAfterCleanup ==
    (last.op = "nativePhonemize" /\ lastLifecycle = "nativeCleanup")
        => TookNotInitializedPath

C4_Witness ==
    /\ last.op = "nativePhonemize"
    /\ lastLifecycle = "nativeCleanup"
    /\ lastInitArg = <<97>>
    /\ last.log = <<LogNotInit>>

\* C6 (as stated): every nativeInit call returns JNI_TRUE and leaves the
\* global data path equal to (the modified UTF-8 of) its argument.
C6_InitAlwaysSucceeds ==
    last.op = "nativeInit"
        => /\ last.outcome = "returned"
           /\ last.ret = "JNI_TRUE"
           /\ g_dataPath = EncodeChars(last.dataPath)

\* C7: nativeCleanup can be called in every state of the running process,
\* returns normally, leaves the flag false, and a nativeCleanup that follows
\* a nativeCleanup changes nothing.
C7_CleanupSafe ==
    /\ [](~crashed => ENABLED nativeCleanup)
    /\ [](last.op = "nativeCleanup"
            => (last.outcome = "returned" /\ ~crashed /\ ~g_initialized))
    /\ [][(last.op = "nativeCleanup" /\ last'.op = "nativeCleanup")
            => vars' = vars]_vars

C7_Witness ==
    /\ last.op = "nativeCleanup"
    /\ lastInitArg = NoArg
    /\ ~g_initialized

\* C8 (as stated): no call ends in a crash of the process.
C8_NoFatalOutcome == ~crashed /\ last.outcome # "crash"

\* C5 (as stated): with the calls interleaved, no thread is inside the
\* conversion body while the readiness flag is false.
C5_NoConversionWhileNotReady ==
    InConversion # {} => g_initialized

\* C11 (as stated): whenever the readiness flag is true, also with
\* nativeInit and nativeCleanup interleaved, g_dataPath holds a string that
\* was handed to some nativeInit call.
C11_ReadyPathWasSupplied ==
    g_initialized => g_dataPath \in SuppliedValues

\* C9: a nativePhonemize call leaves the readiness flag and the global data
\* path as they were, in both states and for every text and voice.
C9_ConvertKeepsState ==
    [][last'.op = "nativePhonemize"
         => (g_initialized' = g_initialized /\ g_dataPath' = g_dataPath)]_vars

C9_Witness ==
    /\ last.op = "nativePhonemize"
    /\ g_initialized
    /\ g_dataPath = <<97>>
    /\ last.text = <<0>>

\* C10 (as stated): after nativeCleanup the flag and the global data path
\* both hold their initial values.
C10_CleanupRestoresInitial ==
    last.op = "nativeCleanup"
        => (g_initialized = InitialFlag /\ g_dataPath = InitialPath)

\* C10 (amended): nativeCleanup puts the flag back to its initial value and
\* leaves the global data path as the last nativeInit set it.
C10_CleanupResetsFlagOnly ==
    [][last'.op = "nativeCleanup"
         => (g_initialized' = InitialFlag /\ g_dataPath' = g_dataPath)]_vars

C10_Witness ==
    /\ last.op = "nativeCleanup"
    /\ ~g_initialized
    /\ g_dataPath = <<97>>

\* C12: whenever nativeInit or nativePhonemize returns, every buffer it
\* obtained with GetStringUTFChars has been released once, so no buffer is
\* outstanding between calls; the not-initialized path of nativePhonemize
\* requests none.
C12_BuffersBalanced ==
    /\ last.outcome = "returned" => outstanding = 0
    /\ (last.op = "nativePhonemize" /\ last.log = <<LogNotInit>>)
           => last.gets = 0

C12_Witness ==
    /\ last.op = "nativePhonemize"
    /\ last.outcome = "returned"
    /\ last.log = <<LogPhonemize>>
    /\ last.text = <<97>>
    /\ last.voice = <<0>>
    /\ last.gets = 2
    /\ lastInitArg = <<97, 0>>
    /\ outstanding = 0

====
